---- MODULE Spec2Model ----
(***************************************************************************)
(* Model of src/index.ts: the spreadsheet-to-remote reconciliation of bus  *)
(* status.  Strings are sequences of one-character strings so that trim,   *)
(* toUpperCase and the time regular expression are computed, not assumed.  *)
(* An optional value (undefined or a value) is the empty sequence or a     *)
(* one-element sequence.                                                   *)
(***************************************************************************)
EXTENDS Integers, Sequences, FiniteSets, TLC

VARIABLES
  dryRun,       \* config.dryRun
  data,         \* data.buses: sequence of [name, bus], in key insertion order
  dataUpdated,  \* the dirty flag
  file,         \* contents of the data file on disk
  saving,       \* <<>>, or <<snapshot>> while saveData awaits writeFile
  remote,       \* the remote service's buses (what GET /buses returns)
  today,        \* calendar day of the running or last pass
  pc,           \* position of fetchFromGoogleSheets: idle, reconcile, sweep, done, failed
  feedIn,       \* the two documents of this pass: [feed, rows]
  buses,        \* the normalized candidates of this pass
  seenBuses,    \* set of names seen by the normalizer
  busCache,     \* <<>> or <<directory snapshot>>
  idx,          \* index in buses of the next candidate
  calls,        \* remote calls issued by this pass, in order
  misses,       \* number of candidates of this pass that missed data.buses
  passes,       \* number of passes started
  repeat,       \* this pass has the feed of the pass before it, which completed
  creates,      \* every create request issued so far, over all passes, in order
  timeIn,       \* input of parseTime
  timeOut       \* [state, val]: "pending", or "done" with the result of parseTime

vars == <<dryRun, data, dataUpdated, file, saving, remote, today, pc, feedIn,
          buses, seenBuses, busCache, idx, calls, misses, passes, repeat,
          creates, timeIn, timeOut>>

passVars == <<pc, feedIn, buses, seenBuses, busCache, idx, calls, misses,
              passes, repeat>>
timeVars == <<timeIn, timeOut>>

None == <<>>
Some(v) == <<v>>

(***************************************************************************)
(* Strings                                                                 *)
(***************************************************************************)
IsSpace(c) == c = " "

toUpperChar(c) ==
  CASE c = "a" -> "A"
    [] c = "b" -> "B"
    [] c = "m" -> "M"
    [] c = "p" -> "P"
    [] c = "x" -> "X"
    [] c = "y" -> "Y"
    [] OTHER -> c

toUpperCase(s) == [i \in 1..Len(s) |-> toUpperChar(s[i])]

RECURSIVE trimStart(_)
trimStart(s) ==
  IF s # <<>> /\ IsSpace(Head(s)) THEN trimStart(Tail(s)) ELSE s

RECURSIVE trimEnd(_)
trimEnd(s) ==
  IF s # <<>> /\ IsSpace(s[Len(s)]) THEN trimEnd(SubSeq(s, 1, Len(s) - 1)) ELSE s

trim(s) == trimEnd(trimStart(s))

(***************************************************************************)
(* parseTime and its regular expression                                    *)
(*   /(0?[0-9]|1[0-2]):([0-5][0-9]) *(AM|PM)?/                             *)
(***************************************************************************)
Digits == {"0", "1", "2", "3", "4", "5", "6", "7", "8", "9"}

DigitVal(c) ==
  CASE c = "0" -> 0 [] c = "1" -> 1 [] c = "2" -> 2 [] c = "3" -> 3
    [] c = "4" -> 4 [] c = "5" -> 5 [] c = "6" -> 6 [] c = "7" -> 7
    [] c = "8" -> 8 [] c = "9" -> 9

\* the character at position i, or "" past either end
Ch(s, i) == IF i >= 1 /\ i <= Len(s) THEN s[i] ELSE ""

\* :([0-5][0-9]) at position j
MinuteAt(s, j) ==
  /\ Ch(s, j) = ":"
  /\ Ch(s, j + 1) \in {"0", "1", "2", "3", "4", "5"}
  /\ Ch(s, j + 2) \in Digits

RECURSIVE SkipSpaces(_, _)
SkipSpaces(s, k) == IF Ch(s, k) = " " THEN SkipSpaces(s, k + 1) ELSE k

\* the third group: " *" is greedy, then AM or PM, else the group is undefined
MarkerAt(s, k) ==
  LET p == SkipSpaces(s, k) IN
    IF Ch(s, p) = "A" /\ Ch(s, p + 1) = "M" THEN Some("AM")
    ELSE IF Ch(s, p) = "P" /\ Ch(s, p + 1) = "M" THEN Some("PM")
    ELSE None

\* end of the whole match that starts its minutes at j
MatchEnd(s, j) ==
  IF MarkerAt(s, j + 3) = None THEN SkipSpaces(s, j + 3)
  ELSE SkipSpaces(s, j + 3) + 2

\* A match starting at position i, the alternatives of the first group tried in
\* the order of the backtracking matcher: 0[0-9], then [0-9], then 1[0-2].
\* <<>> or <<match>>; g1 and g2 are the matched digit strings, and the result
\* array always has one slot per group plus one: length 4.
MatchAt(s, i) ==
  IF Ch(s, i) = "0" /\ Ch(s, i + 1) \in Digits /\ MinuteAt(s, i + 2)
    THEN Some([start |-> i, end |-> MatchEnd(s, i + 2), g1 |-> SubSeq(s, i, i + 1),
               g2 |-> SubSeq(s, i + 3, i + 4), g3 |-> MarkerAt(s, i + 5),
               length |-> 4])
  ELSE IF Ch(s, i) \in Digits /\ MinuteAt(s, i + 1)
    THEN Some([start |-> i, end |-> MatchEnd(s, i + 1), g1 |-> SubSeq(s, i, i),
               g2 |-> SubSeq(s, i + 2, i + 3), g3 |-> MarkerAt(s, i + 4),
               length |-> 4])
  ELSE IF Ch(s, i) = "1" /\ Ch(s, i + 1) \in {"0", "1", "2"} /\ MinuteAt(s, i + 2)
    THEN Some([start |-> i, end |-> MatchEnd(s, i + 2), g1 |-> SubSeq(s, i, i + 1),
               g2 |-> SubSeq(s, i + 3, i + 4), g3 |-> MarkerAt(s, i + 5),
               length |-> 4])
  ELSE None

Least(S) == CHOOSE h \in S : \A g \in S : h <= g

LeftmostMatch(s, hits) == IF hits = {} THEN None ELSE MatchAt(s, Least(hits))

\* timeRegex.exec(str): the leftmost match; the regex has no anchors
timeRegexExec(s) == LeftmostMatch(s, {i \in 1..Len(s) : MatchAt(s, i) # None})

RECURSIVE parseInt(_)
parseInt(s) ==
  IF s = <<>> THEN 0 ELSE 10 * parseInt(SubSeq(s, 1, Len(s) - 1)) + DigitVal(s[Len(s)])

\* lines 125-137: the hour after the AM/PM rules
AdjustHour(match, hour) ==
  IF match.length < 4
    THEN (IF hour > 0 /\ hour < 11 THEN hour + 12 ELSE hour)
  ELSE IF match.g3 = Some("AM")
    THEN (IF hour = 12 THEN 0 ELSE hour)
  ELSE (IF hour # 12 THEN hour + 12 ELSE hour)

ParseMatch(match) ==
  IF match = None THEN None
  ELSE Some(AdjustHour(match[1], parseInt(match[1].g1)) * 60 + parseInt(match[1].g2))

parseTime(str) == ParseMatch(timeRegexExec(str))

(***************************************************************************)
(* Feed normalization (fetchFromGoogleSheets, first half)                  *)
(* A structured entry maps each key to None (key missing) or Some(text).   *)
(* A table row is the sequence of the textContent of its td cells.         *)
(***************************************************************************)
KeyTriples ==
  << [name |-> "gsx$towns", location |-> "gsx$loc", departure |-> "gsx$time"],
     [name |-> "gsx$townsbuslocation", location |-> "gsx$loc_2",
      departure |-> "gsx$time_2"] >>

FeedKeys == {"gsx$towns", "gsx$loc", "gsx$time",
             "gsx$townsbuslocation", "gsx$loc_2", "gsx$time_2"}

\* entry[key] && entry[key].$t is truthy
HasText(entry, key) == entry[key] # None /\ entry[key][1] # <<>>

\* buses.push and seenBuses[name] = true, when the name is not empty
PushStructured(acc, name, location, departure) ==
  IF Len(name) > 0
    THEN [acc EXCEPT
            !.seen = @ \cup {name},
            !.buses = Append(@, [name |-> name,
                                 location |-> IF Len(location) > 0
                                                THEN Some(location) ELSE None,
                                 departure |-> departure])]
    ELSE acc

\* one (entry, key triple) of the structured feed: acc is [buses, seen, threw]
StructuredKeys(acc, entry, keys) ==
  PushStructured(acc,
    IF HasText(entry, keys.name) THEN trim(entry[keys.name][1]) ELSE <<>>,
    IF HasText(entry, keys.location)
      THEN toUpperCase(trim(entry[keys.location][1])) ELSE <<>>,
    IF HasText(entry, keys.departure)
      THEN parseTime(entry[keys.departure][1]) ELSE None)

StructuredEntry(acc, entry) ==
  StructuredKeys(StructuredKeys(acc, entry, KeyTriples[1]), entry, KeyTriples[2])

RECURSIVE StructuredFeed(_, _)
StructuredFeed(acc, entries) ==
  IF entries = <<>> THEN acc
  ELSE StructuredFeed(StructuredEntry(acc, Head(entries)), Tail(entries))

HeaderRows == 3
GroupWidth == 3

\* PushTabular without the seenBuses test
PushTabularUnchecked(acc, row, index, name, locationStr) ==
  IF Len(row) < index + 3 THEN [acc EXCEPT !.threw = TRUE]
  ELSE [acc EXCEPT
          !.buses = Append(@, [name |-> name,
                               location |-> IF Len(locationStr) > 0
                                              THEN Some(locationStr) ELSE None,
                               departure |-> IF row[index + 3] # <<>>
                                               THEN parseTime(row[index + 3])
                                               ELSE None]),
          !.seen = @ \cup {name}]

\* lines 177-186, once the name is known to be non-empty
PushTabular(acc, row, index, name, locationStr) ==
  IF name \in acc.seen THEN acc
  ELSE IF Len(row) < index + 3 THEN [acc EXCEPT !.threw = TRUE]
  ELSE [acc EXCEPT
          !.buses = Append(@, [name |-> name,
                               location |-> IF Len(locationStr) > 0
                                              THEN Some(locationStr) ELSE None,
                               departure |-> IF row[index + 3] # <<>>
                                               THEN parseTime(row[index + 3])
                                               ELSE None]),
          !.seen = @ \cup {name}]

NamedGroup(acc, row, index, name) ==
  IF Len(name) < 1 THEN acc
  ELSE IF Len(row) < index + 2 THEN [acc EXCEPT !.threw = TRUE]
  ELSE PushTabular(acc, row, index, name, toUpperCase(trim(row[index + 2])))

\* one column group of a table row; index is the 0-based offset of the group.
\* Reading a cell the row does not have throws.
TabularGroup(acc, row, index) ==
  IF acc.threw THEN acc
  ELSE IF Len(row) < index + 1 THEN [acc EXCEPT !.threw = TRUE]
  ELSE NamedGroup(acc, row, index, trim(row[index + 1]))

TabularRow(acc, row) ==
  TabularGroup(TabularGroup(acc, row, 0), row, GroupWidth)

RECURSIVE TabularRows(_, _)
TabularRows(acc, rows) ==
  IF rows = <<>> THEN acc
  ELSE TabularRows(TabularRow(acc, Head(rows)), Tail(rows))

\* [...document.getElementsByTagName("tr")].slice(3)
SliceRows(rows) ==
  IF Len(rows) <= HeaderRows THEN <<>> ELSE SubSeq(rows, HeaderRows + 1, Len(rows))

\* the whole normalization of the two documents f = [feed, rows]
Normalize(f) ==
  TabularRows(StructuredFeed([buses |-> <<>>, seen |-> {}, threw |-> FALSE], f.feed),
              SliceRows(f.rows))

(***************************************************************************)
(* The cache data.buses: an object, so a sequence of [name, bus] in key    *)
(* insertion order.  bus is [id, locations, departure, invalidateTime,     *)
(* available].                                                             *)
(***************************************************************************)
Range(q) == {q[i] : i \in 1..Len(q)}

Keys(d) == [i \in 1..Len(d) |-> d[i].name]

HasBus(d, name) == \E i \in 1..Len(d) : d[i].name = name

GetBus(d, name) == d[CHOOSE i \in 1..Len(d) : d[i].name = name].bus

\* data.buses[name] = bus: replaces in place, or appends a new key
SetBus(d, name, bus) ==
  IF HasBus(d, name)
    THEN [i \in 1..Len(d) |-> IF d[i].name = name THEN [d[i] EXCEPT !.bus = bus] ELSE d[i]]
    ELSE Append(d, [name |-> name, bus |-> bus])

\* new Date(now.getFullYear(), now.getMonth(), now.getDate() + 1, 0, 0, 0, 0)
NextMidnight(now) == now + 1

(***************************************************************************)
(* The remote service as the calls of this program use it                  *)
(***************************************************************************)
\* a request; key is the bus name it is made for
Call(op, key, id) ==
  [op |-> op, key |-> key, id |-> id, ok |-> TRUE, available |-> None,
   departure |-> None, locations |-> <<>>, invalidate_time |-> None,
   associate_time |-> FALSE]

IsMutation(c) == c.op # "GET"

\* the id the service assigns to a created bus
NewId(rem) == Len(rem) + 1

RemoteCreate(rem, name) ==
  Append(rem, [id |-> NewId(rem), name |-> Some(name), locations |-> <<>>,
               departure |-> None, invalidate_time |-> None,
               other_names |-> <<>>, available |-> TRUE])

RemoteApply(rem, c) ==
  [i \in 1..Len(rem) |->
     IF rem[i].id # c.id THEN rem[i]
     ELSE IF c.op = "PATCH" THEN [rem[i] EXCEPT !.available = c.available[1]]
     ELSE IF c.op = "PUT_departure" THEN [rem[i] EXCEPT !.departure = c.departure]
     ELSE IF c.op = "PUT_location"
       THEN [rem[i] EXCEPT !.locations = c.locations,
                           !.invalidate_time = c.invalidate_time]
     ELSE rem[i]]

\* Request with the rejection of a PATCH or PUT caught and dropped
RequestSwallow(st, c, fail) ==
  IF c.op = fail
    THEN [st EXCEPT !.calls = Append(@, [c EXCEPT !.ok = FALSE]),
                    !.threw = c.op \in {"GET", "POST"}]
  ELSE IF c.op = "GET"
    THEN [st EXCEPT !.calls = Append(@, c), !.busCache = Some(st.remote)]
  ELSE IF c.op = "POST"
    THEN [st EXCEPT !.calls = Append(@, c), !.remote = RemoteCreate(@, c.key)]
  ELSE [st EXCEPT !.calls = Append(@, c), !.remote = RemoteApply(@, c)]

\* One awaited request: st is the running state of the pass,
\* [data, dataUpdated, busCache, calls, remote, misses, threw, ret].
\* The request named by fail is rejected; any other one is applied.
Request(st, c, fail) ==
  IF c.op = fail
    THEN [st EXCEPT !.calls = Append(@, [c EXCEPT !.ok = FALSE]), !.threw = TRUE]
  ELSE IF c.op = "GET"
    THEN [st EXCEPT !.calls = Append(@, c), !.busCache = Some(st.remote)]
  ELSE IF c.op = "POST"
    THEN [st EXCEPT !.calls = Append(@, c), !.remote = RemoteCreate(@, c.key)]
  ELSE [st EXCEPT !.calls = Append(@, c), !.remote = RemoteApply(@, c)]

(***************************************************************************)
(* The reconcile loop body, one candidate (lines 189-285)                  *)
(***************************************************************************)
Stopped(st) == st.threw \/ st.ret

\* busCache.find(bus => bus.name === name || other_names.includes(name))
FindBus(cache, name) ==
  LET hits == {i \in 1..Len(cache) :
                 \/ cache[i].name = Some(name)
                 \/ name \in Range(cache[i].other_names)}
  IN IF hits = {} THEN None
     ELSE Some(cache[CHOOSE h \in hits : \A g \in hits : h <= g])

\* DirectoryStep without the busCache test
DirectoryStepEveryMiss(st, cand, fail) ==
  Request(st, Call("GET", cand.name, 0), fail)

\* lines 196-198: the directory is fetched when busCache is not yet set
DirectoryStep(st, cand, fail) ==
  IF st.busCache = None
    THEN Request(st, Call("GET", cand.name, 0), fail)
    ELSE st

\* lines 204-225, with the directory at hand
SeedOrCreate(st, cand, dry, fail, foundBus) ==
  IF foundBus # None
    THEN [st EXCEPT
            !.data = SetBus(@, cand.name,
                       [id |-> foundBus[1].id,
                        locations |-> foundBus[1].locations,
                        departure |-> foundBus[1].departure,
                        invalidateTime |-> foundBus[1].invalidate_time,
                        available |-> foundBus[1].available]),
            !.dataUpdated = TRUE]
  ELSE IF dry THEN [st EXCEPT !.ret = TRUE]
  ELSE IF cand.location = None THEN [st EXCEPT !.ret = TRUE]
  ELSE IF fail = "POST"
    THEN Request(st, Call("POST", cand.name, NewId(st.remote)), fail)
  ELSE [Request(st, Call("POST", cand.name, NewId(st.remote)), fail) EXCEPT
          !.data = SetBus(@, cand.name,
                     [id |-> NewId(st.remote), locations |-> <<>>,
                      departure |-> None, invalidateTime |-> None,
                      available |-> TRUE]),
          !.dataUpdated = TRUE]

Lookup(st, cand, dry, fail) ==
  IF st.threw THEN st
  ELSE SeedOrCreate(st, cand, dry, fail, FindBus(st.busCache[1], cand.name))

\* ResolveStep with an entry refreshed from a directory already fetched
ResolveStepRefresh(st, cand, dry, fail) ==
  IF HasBus(st.data, cand.name)
    THEN IF st.busCache # None /\ FindBus(st.busCache[1], cand.name) # None
           THEN SeedOrCreate(st, cand, dry, fail, FindBus(st.busCache[1], cand.name))
           ELSE st
  ELSE Lookup(DirectoryStep([st EXCEPT !.misses = @ + 1], cand, fail),
              cand, dry, fail)

\* ResolveStep without the test of data.buses[name]
ResolveStepNoCache(st, cand, dry, fail) ==
  Lookup(DirectoryStep([st EXCEPT !.misses = @ + 1], cand, fail), cand, dry, fail)

\* lines 193-226
ResolveStep(st, cand, dry, fail) ==
  IF HasBus(st.data, cand.name) THEN st
  ELSE Lookup(DirectoryStep([st EXCEPT !.misses = @ + 1], cand, fail),
              cand, dry, fail)

AvailabilityStep(st, cand, dry, fail) ==
  IF Stopped(st) THEN st
  ELSE
    LET bus == GetBus(st.data, cand.name) IN
      IF bus.available THEN st
      ELSE
        LET s1 == [st EXCEPT !.data = SetBus(@, cand.name, [bus EXCEPT !.available = TRUE])]
            s2 == IF dry THEN s1
                  ELSE Request(s1, [Call("PATCH", cand.name, bus.id)
                                      EXCEPT !.available = Some(TRUE)], fail)
        IN IF s2.threw THEN s2 ELSE [s2 EXCEPT !.dataUpdated = TRUE]

\* DepartureStep without the dryRun test
DepartureStepNoDryRun(st, cand, dry, fail) ==
  IF Stopped(st) THEN st
  ELSE IF cand.departure = None \/ GetBus(st.data, cand.name).departure = cand.departure
    THEN st
  ELSE Request([st EXCEPT !.data = SetBus(@, cand.name,
                             [GetBus(st.data, cand.name) EXCEPT
                                !.departure = cand.departure])],
               [Call("PUT_departure", cand.name, GetBus(st.data, cand.name).id)
                  EXCEPT !.departure = cand.departure], fail)

DepartureStep(st, cand, dry, fail) ==
  IF Stopped(st) THEN st
  ELSE
    LET bus == GetBus(st.data, cand.name) IN
      IF cand.departure = None \/ bus.departure = cand.departure THEN st
      ELSE
        LET s1 == [st EXCEPT !.data = SetBus(@, cand.name,
                                        [bus EXCEPT !.departure = cand.departure])]
        IN IF dry THEN s1
           ELSE Request(s1, [Call("PUT_departure", cand.name, bus.id)
                               EXCEPT !.departure = cand.departure], fail)

LocationStep(st, cand, dry, fail, now) ==
  IF Stopped(st) THEN st
  ELSE
    LET bus == GetBus(st.data, cand.name)
        newLocations == IF cand.location # None THEN <<cand.location[1]>> ELSE <<>>
        changed == IF cand.location # None
                     THEN (bus.locations = <<>> \/ bus.locations[1] # cand.location[1])
                     ELSE Len(bus.locations) # 0
    IN IF ~changed THEN st
       ELSE
         LET s1 == [st EXCEPT !.data = SetBus(@, cand.name,
                                  [bus EXCEPT !.locations = newLocations,
                                              !.invalidateTime = Some(NextMidnight(now))])]
             s2 == IF dry THEN s1
                   ELSE Request(s1, [Call("PUT_location", cand.name, bus.id)
                                       EXCEPT !.locations = newLocations,
                                              !.invalidate_time = Some(NextMidnight(now)),
                                              !.associate_time = (cand.location # None)],
                                fail)
         IN IF s2.threw THEN s2 ELSE [s2 EXCEPT !.dataUpdated = TRUE]

(***************************************************************************)
(* The absence sweep (lines 287-296).  Every callback runs to its await in *)
(* key order; failed holds the keys whose PATCH is rejected.               *)
(***************************************************************************)
SweepKeys(d, seen) == SelectSeq(Keys(d), LAMBDA k : k \notin seen)

\* SweepOne without the test of bus.available
SweepOneAlways(st, key, dry, failed) ==
  IF dry
    THEN [st EXCEPT !.data = SetBus(@, key, [GetBus(st.data, key) EXCEPT !.available = FALSE]),
                    !.dataUpdated = TRUE]
  ELSE [st EXCEPT
          !.data = SetBus(@, key, [GetBus(st.data, key) EXCEPT !.available = FALSE]),
          !.calls = Append(@, [Call("PATCH", key, GetBus(st.data, key).id)
                                 EXCEPT !.available = Some(FALSE),
                                        !.ok = key \notin failed]),
          !.threw = @ \/ key \in failed,
          !.dataUpdated = @ \/ key \notin failed]

SweepOne(st, key, dry, failed) ==
  LET bus == GetBus(st.data, key) IN
    IF ~bus.available THEN st
    ELSE
      LET s1 == [st EXCEPT !.data = SetBus(@, key, [bus EXCEPT !.available = FALSE])]
          c == [Call("PATCH", key, bus.id)
                  EXCEPT !.available = Some(FALSE), !.ok = key \notin failed]
      IN IF dry THEN [s1 EXCEPT !.dataUpdated = TRUE]
         ELSE IF key \in failed
           THEN [s1 EXCEPT !.calls = Append(@, c), !.threw = TRUE]
         ELSE [s1 EXCEPT !.calls = Append(@, c), !.remote = RemoteApply(@, c),
                         !.dataUpdated = TRUE]

RECURSIVE SweepAll(_, _, _, _)
SweepAll(st, keys, dry, failed) ==
  IF keys = <<>> THEN st
  ELSE SweepAll(SweepOne(st, Head(keys), dry, failed), Tail(keys), dry, failed)

(***************************************************************************)
(* Start-up (lines 71-102): the data file is read, or rebuilt from GET     *)
(* /buses when it cannot be read                                           *)
(***************************************************************************)
RECURSIVE Rebuild(_)
Rebuild(rem) ==
  IF rem = <<>> THEN <<>>
  ELSE LET bus == rem[Len(rem)]
           rest == Rebuild(SubSeq(rem, 1, Len(rem) - 1))
       IN IF bus.name # None /\ bus.name[1] # <<>>
            THEN SetBus(rest, bus.name[1],
                        [id |-> bus.id, locations |-> bus.locations,
                         departure |-> None,
                         invalidateTime |-> bus.invalidate_time,
                         available |-> bus.available])
            ELSE rest

(***************************************************************************)
(* Inputs                                                                  *)
(***************************************************************************)
MaxPasses == 2
MaxDay == 1

nA == <<"A">>
nA2 == <<"A", "2">>
nB == <<"B">>
T1PM == <<"1", ":", "0", "0", " ", "P", "M">>
T2 == <<"2", ":", "0", "0">>

\* GET /buses at start-up: bus 1 is A, also known as A2; bus 2 has no name
Remote0 ==
  << [id |-> 1, name |-> Some(nA), locations |-> << <<"X">> >>, departure |-> None,
      invalidate_time |-> None, other_names |-> <<nA2>>, available |-> TRUE],
     [id |-> 2, name |-> None, locations |-> <<>>, departure |-> None,
      invalidate_time |-> None, other_names |-> <<>>, available |-> TRUE] >>

\* a readable data file, without buses
File0 == <<>>

Entry(n1, l1, t1, n2, l2, t2) ==
  [k \in FeedKeys |->
     CASE k = "gsx$towns" -> n1
       [] k = "gsx$loc" -> l1
       [] k = "gsx$time" -> t1
       [] k = "gsx$townsbuslocation" -> n2
       [] k = "gsx$loc_2" -> l2
       [] k = "gsx$time_2" -> t2]

\* three header rows, without td cells
Hdr == << <<>>, <<>>, <<>> >>

PassFeeds ==
  { \* A and B in the structured feed, A again in the table
    [feed |-> << Entry(Some(<<" ", "A">>), Some(<<"x">>), Some(T1PM),
                       Some(nB), Some(<<"y">>), None) >>,
     rows |-> Hdr \o << << nA, <<"Y">>, <<>>, <<>>, <<>>, <<>> >> >>],
    \* B twice in one entry
    [feed |-> << Entry(Some(nB), Some(<<"x">>), None, Some(nB), Some(<<"y">>), None) >>,
     rows |-> Hdr],
    \* A under its other name
    [feed |-> << Entry(Some(nA2), Some(<<"x">>), Some(T2), None, None, None) >>,
     rows |-> Hdr],
    \* A at X with another departure
    [feed |-> << Entry(Some(nA), Some(<<"X">>), Some(T2), None, Some(<<>>), None) >>,
     rows |-> Hdr],
    \* nothing
    [feed |-> <<>>, rows |-> Hdr],
    \* table only: B and A without location
    [feed |-> <<>>,
     rows |-> Hdr \o << << nB, <<" ">>, T2, nA, <<>>, <<>> >> >>] }

FailPoints == {"none", "GET", "POST", "PATCH", "PUT_departure", "PUT_location"}

(***************************************************************************)
(* Actions                                                                 *)
(***************************************************************************)
\* start-up against a remote service that holds the buses rem
InitFrom(rem) ==
  /\ dryRun \in BOOLEAN
  /\ remote = rem
  /\ \E how \in {"read", "rebuild"} :
       /\ data = CASE how = "read" -> File0
                   [] how = "rebuild" -> Rebuild(rem)
       /\ file = data
  /\ dataUpdated = FALSE
  /\ saving = None
  /\ today = 0
  /\ pc = "idle"
  /\ feedIn = [feed |-> <<>>, rows |-> <<>>]
  /\ buses = <<>>
  /\ seenBuses = {}
  /\ busCache = None
  /\ idx = 1
  /\ calls = <<>>
  /\ misses = 0
  /\ passes = 0
  /\ repeat = FALSE
  /\ creates = <<>>
  /\ timeIn = <<>>
  /\ timeOut = [state |-> "unused", val |-> None]

Init == InitFrom(Remote0)

Idle == pc \in {"idle", "done", "failed"}

\* fetchFromGoogleSheets up to the reconcile loop: both documents arrive.
\* Midnight may have passed since the pass before; the day does not change
\* during a pass.
StartPass ==
  /\ Idle
  /\ passes < MaxPasses
  /\ \E f \in PassFeeds :
       LET n == Normalize(f) IN
         /\ feedIn' = f
         /\ repeat' = (pc = "done" /\ f = feedIn)
         /\ buses' = n.buses
         /\ seenBuses' = n.seen
         /\ pc' = IF n.threw THEN "failed"
                  ELSE IF n.buses = <<>> THEN "sweep" ELSE "reconcile"
  /\ \E now \in {today, today + 1} :
       /\ now <= MaxDay
       /\ today' = now
  /\ passes' = passes + 1
  /\ busCache' = None
  /\ idx' = 1
  /\ calls' = <<>>
  /\ misses' = 0
  /\ UNCHANGED <<dryRun, data, dataUpdated, file, saving, remote, creates, timeVars>>

\* FeedFetchFails with the directory requested along with the two feeds
FeedFetchFailsEager ==
  /\ Idle
  /\ passes < MaxPasses
  /\ pc' = "failed"
  /\ repeat' = FALSE
  /\ passes' = passes + 1
  /\ feedIn' = [feed |-> <<>>, rows |-> <<>>]
  /\ buses' = <<>>
  /\ seenBuses' = {}
  /\ busCache' = None
  /\ idx' = 1
  /\ calls' = <<Call("GET", <<>>, 0)>>
  /\ misses' = 0
  /\ UNCHANGED <<dryRun, data, dataUpdated, file, saving, remote, today, creates, timeVars>>

\* one of the two feed requests is rejected
FeedFetchFails ==
  /\ Idle
  /\ passes < MaxPasses
  /\ pc' = "failed"
  /\ repeat' = FALSE
  /\ passes' = passes + 1
  /\ feedIn' = [feed |-> <<>>, rows |-> <<>>]
  /\ buses' = <<>>
  /\ seenBuses' = {}
  /\ busCache' = None
  /\ idx' = 1
  /\ calls' = <<>>
  /\ misses' = 0
  /\ UNCHANGED <<dryRun, data, dataUpdated, file, saving, remote, today, creates, timeVars>>

\* the requests a step added to the log
NewCalls(old, new) == SubSeq(new, Len(old) + 1, Len(new))

PassState ==
  [data |-> data, dataUpdated |-> dataUpdated, busCache |-> busCache,
   calls |-> calls, remote |-> remote, misses |-> misses,
   threw |-> FALSE, ret |-> FALSE]

\* AfterCandidate with the sweep started once the first callback is done
AfterCandidateEarly(threw, i, n) ==
  IF threw THEN "failed" ELSE "sweep"

\* lines 189-190 and 285-287: the next callback awaits this one, the sweep
\* awaits the last one, and a rejection ends the pass
AfterCandidate(threw, i, n) ==
  IF threw THEN "failed"
  ELSE IF i = n THEN "sweep" ELSE "reconcile"

\* the reduce callback for candidate idx
ProcessCandidate ==
  /\ pc = "reconcile"
  /\ \E fail \in FailPoints :
     \E s1 \in {ResolveStep(PassState, buses[idx], dryRun, fail)} :
     \E s2 \in {AvailabilityStep(s1, buses[idx], dryRun, fail)} :
     \E s3 \in {DepartureStep(s2, buses[idx], dryRun, fail)} :
     \E st \in {LocationStep(s3, buses[idx], dryRun, fail, today)} :
         /\ data' = st.data
         /\ dataUpdated' = st.dataUpdated
         /\ busCache' = st.busCache
         /\ calls' = st.calls
         /\ remote' = st.remote
         /\ misses' = st.misses
         /\ creates' = creates \o SelectSeq(NewCalls(calls, st.calls),
                                             LAMBDA c : c.op = "POST")
         /\ pc' = AfterCandidate(st.threw, idx, Len(buses))
  /\ idx' = idx + 1
  /\ UNCHANGED <<dryRun, file, saving, today, feedIn, buses, seenBuses, passes,
                 repeat, timeVars>>

\* the Promise.all over the absent keys
Sweep ==
  /\ pc = "sweep"
  /\ \E failed \in SUBSET Range(SweepKeys(data, seenBuses)) :
     \E st \in {SweepAll(PassState, SweepKeys(data, seenBuses), dryRun, failed)} :
         /\ data' = st.data
         /\ dataUpdated' = st.dataUpdated
         /\ calls' = st.calls
         /\ remote' = st.remote
         /\ pc' = IF st.threw THEN "failed" ELSE "done"
  /\ UNCHANGED <<dryRun, file, saving, today, feedIn, buses, seenBuses, busCache,
                 idx, misses, passes, repeat, creates, timeVars>>

\* SaveBegin without the test of dataUpdated
SaveBeginAlways ==
  /\ saving = None
  /\ saving' = Some(data)
  /\ UNCHANGED <<dryRun, data, dataUpdated, file, remote, today, passVars, creates, timeVars>>

\* saveData up to its await: the cache is serialized when the flag is set,
\* and the call returns at once when it is not
SaveBegin ==
  /\ saving = None
  /\ saving' = IF dataUpdated THEN Some(data) ELSE None
  /\ UNCHANGED <<dryRun, data, dataUpdated, file, remote, today, passVars, creates, timeVars>>

\* saveData after its await: the file is written, the flag cleared
SaveEnd ==
  /\ saving # None
  /\ file' = saving[1]
  /\ dataUpdated' = FALSE
  /\ saving' = None
  /\ UNCHANGED <<dryRun, data, remote, today, passVars, creates, timeVars>>

Next ==
  \/ StartPass
  \/ FeedFetchFails
  \/ ProcessCandidate
  \/ Sweep
  \/ SaveBegin
  \/ SaveEnd

Spec == Init /\ [][Next]_vars

(***************************************************************************)
(* The same program against a directory in which another client of the     *)
(* service has given bus 1 two locations                                   *)
(***************************************************************************)
RemoteMulti == [Remote0 EXCEPT ![1].locations = << <<"X">>, <<"Y">> >>]

InitMulti == InitFrom(RemoteMulti)

SpecMulti == InitMulti /\ [][Next]_vars

(***************************************************************************)
(* parseTime on its own: the input is drawn, the function applied          *)
(***************************************************************************)
MaxHour == 12
MaxMinute == 59

DigitChar(d) ==
  CASE d = 0 -> "0" [] d = 1 -> "1" [] d = 2 -> "2" [] d = 3 -> "3" [] d = 4 -> "4"
    [] d = 5 -> "5" [] d = 6 -> "6" [] d = 7 -> "7" [] d = 8 -> "8" [] d = 9 -> "9"

Markers == {"", "AM", "PM"}

\* the text h:mm, h:mm AM or h:mm PM
TimeStr(h, m, mk) ==
  (IF h < 10 THEN <<DigitChar(h)>> ELSE <<DigitChar(h \div 10), DigitChar(h % 10)>>)
  \o <<":", DigitChar(m \div 10), DigitChar(m % 10)>>
  \o (CASE mk = "" -> <<>>
        [] mk = "AM" -> <<" ", "A", "M">>
        [] mk = "PM" -> <<" ", "P", "M">>)

OtherTexts ==
  { <<"1", "3", ":", "0", "0">>, <<"1", "2", ":", "6", "0">>, <<"1", ":", "3">>,
    <<"2", "4", ":", "0", "0">>, <<"x">>, <<":", "0", "0">>, <<>> }

TimeInputs ==
  {TimeStr(h, m, mk) : h \in 0..MaxHour, m \in 0..MaxMinute, mk \in Markers}
    \cup OtherTexts

Quiet ==
  /\ dryRun = FALSE
  /\ remote = <<>>
  /\ data = <<>>
  /\ file = <<>>
  /\ dataUpdated = FALSE
  /\ saving = None
  /\ today = 0
  /\ busCache = None
  /\ idx = 1
  /\ calls = <<>>
  /\ misses = 0
  /\ passes = 0
  /\ repeat = FALSE
  /\ creates = <<>>

InitTime ==
  /\ Quiet
  /\ pc = "idle"
  /\ feedIn = [feed |-> <<>>, rows |-> <<>>]
  /\ buses = <<>>
  /\ seenBuses = {}
  /\ timeIn \in TimeInputs
  /\ timeOut = [state |-> "pending", val |-> None]

ParseTimeCall ==
  /\ timeOut.state = "pending"
  /\ timeOut' = [state |-> "done", val |-> parseTime(timeIn)]
  /\ UNCHANGED <<dryRun, data, dataUpdated, file, saving, remote, today, passVars, creates, timeIn>>

NextTime == ParseTimeCall

SpecTime == InitTime /\ [][NextTime]_vars

(***************************************************************************)
(* The normalization on its own, over every small pair of documents        *)
(***************************************************************************)
MaxEntries == 2
MaxRows == 2

NormEntries ==
  { Entry(Some(<<" ", "A">>), Some(<<"x">>), Some(T1PM), Some(nB), Some(<<"y">>), None),
    Entry(Some(nA), Some(<<>>), None, None, None, None),
    Entry(Some(nA), Some(<<"y">>), None, Some(nA), Some(<<"x">>), Some(T2)),
    Entry(Some(<<" ">>), Some(<<"x">>), None, Some(nB), None, Some(T2)),
    Entry(None, None, None, None, None, None) }

NormRows ==
  { << nA, <<"y">>, <<>>, <<>>, <<>>, <<>> >>,
    << <<" ", "B">>, <<"x">>, T2, nA, <<"Y">>, <<>> >>,
    << <<>>, <<"x">>, <<>>, nB, <<>>, T1PM >>,
    << nB, <<"y">>, <<>>, nB, <<"x">>, <<>> >>,
    << <<"a">>, <<>>, <<>>, <<" ">>, <<>>, <<>> >>,
    \* a row that is too short
    << nB >> }

SeqsUpTo(S, n) == UNION {[1..k -> S] : k \in 0..n}

NormFeeds ==
  {[feed |-> e, rows |-> Hdr \o r] :
     e \in SeqsUpTo(NormEntries, MaxEntries), r \in SeqsUpTo(NormRows, MaxRows)}

InitNorm ==
  /\ Quiet
  /\ pc = "fetched"
  /\ feedIn \in NormFeeds
  /\ buses = <<>>
  /\ seenBuses = {}
  /\ timeIn = <<>>
  /\ timeOut = [state |-> "unused", val |-> None]

\* lines 150-187 applied to the fetched documents
NormalizeCall ==
  /\ pc = "fetched"
  /\ \E n \in {Normalize(feedIn)} :
       /\ buses' = n.buses
       /\ seenBuses' = n.seen
       /\ pc' = IF n.threw THEN "failed" ELSE "normalized"
  /\ UNCHANGED <<dryRun, data, dataUpdated, file, saving, remote, today, feedIn,
                 busCache, idx, calls, misses, passes, repeat, creates, timeVars>>

NextNorm == NormalizeCall

SpecNorm == InitNorm /\ [][NextNorm]_vars

(***************************************************************************)
(* Properties of parseTime                                                 *)
(***************************************************************************)
ExpectedMinutes(h, m, mk) ==
  CASE mk = "AM" -> (IF h = 12 THEN 0 ELSE h) * 60 + m
    [] mk = "PM" -> (IF h = 12 THEN 12 ELSE h + 12) * 60 + m
    [] mk = "" -> (IF 0 < h /\ h < 11 THEN h + 12 ELSE h) * 60 + m

\* C9: parsing h:mm with marker AM gives (h=12 ? 0 : h)*60+m, with PM gives
\* (h=12 ? 12 : h+12)*60+m, and with no marker gives (h+12)*60+m only when
\* 0 < h < 11 and h*60+m otherwise.
C9_TimeMapping ==
  timeOut.state = "done" =>
    \A h \in 0..MaxHour, m \in 0..MaxMinute, mk \in Markers :
      timeIn = TimeStr(h, m, mk) => timeOut.val = Some(ExpectedMinutes(h, m, mk))

\* the whole text, surrounding blanks aside, is H:MM or H:MM AM/PM
WellFormed(s) ==
  /\ MatchAt(trim(s), 1) # None
  /\ MatchAt(trim(s), 1)[1].end = Len(trim(s)) + 1

\* C10: a text that is not of the form H:MM or H:MM AM/PM with hour 0..12 and
\* minute 00..59 parses to absent.
C10_MalformedIsAbsent ==
  (timeOut.state = "done" /\ ~WellFormed(timeIn)) => timeOut.val = None

(***************************************************************************)
(* Properties of the normalization                                         *)
(***************************************************************************)
\* the (entry, key triple) pairs of the structured feed, in feed order
StructCells(feed) ==
  [p \in 1..(2 * Len(feed)) |->
     [entry |-> feed[(p + 1) \div 2], keys |-> KeyTriples[2 - (p % 2)]]]

CellName(c) ==
  IF c.entry[c.keys.name] = None THEN <<>> ELSE trim(c.entry[c.keys.name][1])

CellLocation(c) ==
  IF c.entry[c.keys.location] = None \/ trim(c.entry[c.keys.location][1]) = <<>>
    THEN None
    ELSE Some(toUpperCase(trim(c.entry[c.keys.location][1])))

NamedCells(feed) == SelectSeq(StructCells(feed), LAMBDA c : CellName(c) # <<>>)

\* the (row, column group) pairs of the table body, in row order
TableGroups(rows) ==
  [p \in 1..(2 * Len(rows)) |->
     [name |-> trim(rows[(p + 1) \div 2][IF p % 2 = 1 THEN 1 ELSE 4]),
      location |-> toUpperCase(trim(rows[(p + 1) \div 2][IF p % 2 = 1 THEN 2 ELSE 5]))]]

NamedGroups(rows) == SelectSeq(TableGroups(rows), LAMBDA g : g.name # <<>>)

\* the table groups whose name no structured cell and no earlier group has
FreshGroups(feed, rows) ==
  {k \in 1..Len(NamedGroups(rows)) :
     /\ \A i \in 1..Len(NamedCells(feed)) :
          CellName(NamedCells(feed)[i]) # NamedGroups(rows)[k].name
     /\ \A j \in 1..(k - 1) : NamedGroups(rows)[j].name # NamedGroups(rows)[k].name}

NthOf(S, i) == CHOOSE k \in S : Cardinality({j \in S : j <= k}) = i

\* C7: the normalized sequence is every structured candidate in feed order,
\* with the structured location even when it is empty, followed by the table
\* candidates, in row order, whose names were not already seen; no table
\* candidate carries a name the structured feed produced.
C7_StructuredFirst ==
  pc = "normalized" =>
    /\ Len(buses) = Len(NamedCells(feedIn.feed))
                      + Cardinality(FreshGroups(feedIn.feed, SliceRows(feedIn.rows)))
    /\ \A i \in 1..Len(NamedCells(feedIn.feed)) :
         /\ buses[i].name = CellName(NamedCells(feedIn.feed)[i])
         /\ buses[i].location = CellLocation(NamedCells(feedIn.feed)[i])
    /\ \A i \in 1..Cardinality(FreshGroups(feedIn.feed, SliceRows(feedIn.rows))) :
         /\ buses[Len(NamedCells(feedIn.feed)) + i].name =
              NamedGroups(SliceRows(feedIn.rows))
                [NthOf(FreshGroups(feedIn.feed, SliceRows(feedIn.rows)), i)].name
         /\ buses[Len(NamedCells(feedIn.feed)) + i].location =
              (IF NamedGroups(SliceRows(feedIn.rows))
                    [NthOf(FreshGroups(feedIn.feed, SliceRows(feedIn.rows)), i)].location = <<>>
                 THEN None
                 ELSE Some(NamedGroups(SliceRows(feedIn.rows))
                        [NthOf(FreshGroups(feedIn.feed, SliceRows(feedIn.rows)), i)].location))
         /\ \A j \in 1..Len(NamedCells(feedIn.feed)) :
              buses[j].name # buses[Len(NamedCells(feedIn.feed)) + i].name

\* a structured candidate without location, a table row with the same name and
\* a location, and another table row that is emitted
C7_Witness ==
  /\ pc = "normalized"
  /\ \E i \in 1..Len(NamedCells(feedIn.feed)) :
       /\ buses[i].location = None
       /\ \E k \in 1..Len(NamedGroups(SliceRows(feedIn.rows))) :
            /\ NamedGroups(SliceRows(feedIn.rows))[k].name = buses[i].name
            /\ NamedGroups(SliceRows(feedIn.rows))[k].location # <<>>
  /\ Len(buses) > Len(NamedCells(feedIn.feed))

\* C8: no bus name occurs more than once in the normalized sequence.
C8_NoDuplicateNames ==
  pc = "normalized" =>
    \A i, j \in 1..Len(buses) : i # j => buses[i].name # buses[j].name

(***************************************************************************)
(* Properties of a pass                                                    *)
(***************************************************************************)
CallsWhere(P(_)) == {k \in 1..Len(calls) : P(calls[k])}

Mutations == CallsWhere(IsMutation)

\* C1: every change a pass makes to the cache sets the dirty flag (taken over
\* the steps in which no request is rejected).
C1_ChangeMarksDirty ==
  [][(data' # data /\ \A k \in 1..Len(calls') : calls'[k].ok) => dataUpdated']_vars

\* C2: in dry-run mode a pass issues no create, no PATCH and no PUT, and the
\* remote service is left as it was.
C2_DryRunNoMutation ==
  dryRun => (Mutations = {} /\ remote = Remote0)

\* a dry-run pass that completed and changed the cache
C2_Witness ==
  /\ dryRun
  /\ pc = "done"
  /\ dataUpdated
  /\ \E i \in 1..Len(data) : ~data[i].bus.available
  /\ \E i \in 1..Len(data) : data[i].bus.departure = Some(840)

\* C3: a second pass with the feed of a completed non-dry-run pass issues no
\* remote mutation.
C3_SecondPassSilent ==
  (pc = "done" /\ ~dryRun /\ repeat) => Mutations = {}

\* the first candidate that can have created the bus of that name
Creator(name) ==
  Least({i \in 1..Len(buses) : buses[i].name = name /\ buses[i].location # None})

\* C4: when a non-dry-run pass completes, a name it created (a candidate with a
\* location, missing from the cache and from the directory) has had exactly one
\* create call and has one cache entry, available, located at the candidate's
\* location, invalid from the midnight after the change.
C4_CreatedBus ==
  (pc = "done" /\ ~dryRun) =>
    \A k \in 1..Len(calls) :
      (calls[k].op = "POST" /\ calls[k].ok) =>
        /\ Cardinality(CallsWhere(LAMBDA c : c.op = "POST" /\ c.key = calls[k].key)) = 1
        /\ Cardinality({i \in 1..Len(data) : data[i].name = calls[k].key}) = 1
        /\ GetBus(data, calls[k].key).available
        /\ GetBus(data, calls[k].key).locations =
             <<buses[Creator(calls[k].key)].location[1]>>
        /\ GetBus(data, calls[k].key).invalidateTime = Some(today + 1)

\* PATCH requests of this pass that mark the bus of key unavailable
Unavailings(log, key) ==
  {k \in 1..Len(log) :
     log[k].op = "PATCH" /\ log[k].key = key /\ log[k].available = Some(FALSE)}

\* C5: the sweep of a successful non-dry-run pass leaves every cached bus that
\* is absent from the candidates unavailable, with exactly one PATCH for each
\* one that was available and none for one that already was unavailable.
C5_AbsenceSweep ==
  [][(pc = "sweep" /\ pc' = "done" /\ ~dryRun) =>
       \A i \in 1..Len(data) :
         data[i].name \notin seenBuses =>
           /\ data'[i].name = data[i].name
           /\ ~data'[i].bus.available
           /\ Cardinality(Unavailings(calls', data[i].name)) =
                (IF data[i].bus.available THEN 1 ELSE 0)
           /\ \A k \in Unavailings(calls', data[i].name) :
                calls'[k].id = data[i].bus.id /\ calls'[k].ok]_vars

\* the second of two successful passes: an absent bus, already unavailable,
\* is left alone, after a pass that marked it unavailable
C5_Witness ==
  /\ pc = "done"
  /\ ~dryRun
  /\ passes = 2
  /\ \E i \in 1..Len(data) :
       /\ data[i].name \notin seenBuses
       /\ ~data[i].bus.available
       /\ Unavailings(calls, data[i].name) = {}
       /\ remote[data[i].bus.id].available = FALSE

\* C6: the directory is fetched once in a pass that has a cache miss, at the
\* first miss, and not at all in a pass without one.
C6_DirectoryOncePerPass ==
  /\ Cardinality(CallsWhere(LAMBDA c : c.op = "GET")) = (IF misses > 0 THEN 1 ELSE 0)
  /\ (busCache # None) =
       (\E k \in 1..Len(calls) : calls[k].op = "GET" /\ calls[k].ok)
  /\ \A k \in 1..Len(calls) : calls[k].op = "GET" => \A j \in 1..(k - 1) : calls[j].op # "GET"

\* a pass with two misses and one fetch
C6_Witness ==
  /\ misses >= 2
  /\ Cardinality(CallsWhere(LAMBDA c : c.op = "GET")) = 1
  /\ pc = "done"

(***************************************************************************)
(* Properties of saveData                                                  *)
(***************************************************************************)
\* C11: saveData serializes the cache only when the dirty flag is set, its
\* write puts that serialization in the file and clears the flag, the file
\* changes in no other way, and a save leaves the cache alone; so after a
\* write no further write begins until a pass sets the flag again.
C11_SaveOnlyWhenDirty ==
  [][/\ (saving = None /\ saving' # None) =>
          (dataUpdated /\ saving' = Some(data) /\ file' = file /\ data' = data
             /\ dataUpdated' = dataUpdated)
     /\ (saving # None /\ saving' = None) =>
          (file' = saving[1] /\ ~dataUpdated' /\ data' = data)
     /\ (file' # file) => (saving # None /\ saving' = None)
     /\ (dataUpdated /\ ~dataUpdated') => (saving # None /\ saving' = None)]_vars

\* a save has written a cache that holds a created bus, and nothing is pending
C11_Witness ==
  /\ saving = None
  /\ ~dataUpdated
  /\ HasBus(file, nB)
  /\ file = data

(***************************************************************************)
(* Properties of a failing pass                                            *)
(***************************************************************************)
\* C12: a pass whose feed fetch fails ends in failure at once, with the cache,
\* the dirty flag and the remote service as they were, without a directory
\* fetch and without any remote call.
C12_FeedFailureNoReconcile ==
  [][(passes' = passes + 1 /\ pc' = "failed") =>
       /\ data' = data
       /\ dataUpdated' = dataUpdated
       /\ remote' = remote
       /\ busCache' = None
       /\ calls' = <<>>]_vars

\* the second pass failed at its feed fetch; what the first pass created and
\* marked dirty is still there
C12_Witness ==
  /\ pc = "failed"
  /\ idx = 1
  /\ passes = 2
  /\ calls = <<>>
  /\ dataUpdated
  /\ HasBus(data, nB)

\* C13: a request rejected while a candidate is processed ends the pass in
\* failure: it is the last call of the pass, the entries of the other names
\* keep what earlier candidates gave them, a set dirty flag stays set, and
\* a failed pass makes no further call or change (no later candidate, no
\* sweep).
C13_FailureEndsPass ==
  [][/\ (pc = "reconcile" /\ \E k \in (Len(calls) + 1)..Len(calls') : ~calls'[k].ok) =>
          /\ pc' = "failed"
          /\ ~calls'[Len(calls')].ok
          /\ \A k \in 1..(Len(calls') - 1) : calls'[k].ok
          /\ Len(data') >= Len(data)
          /\ \A i \in 1..Len(data) :
               data[i].name # buses[idx].name => data'[i] = data[i]
          /\ dataUpdated => dataUpdated'
     /\ (pc = "failed" /\ passes' = passes) =>
          (pc' = "failed" /\ calls' = calls /\ remote' = remote /\ data' = data)]_vars

\* the second candidate's request was rejected after the first candidate's
\* departure had been pushed and stored; a bus the sweep would have marked
\* unavailable is still available
C13_Witness ==
  /\ pc = "failed"
  /\ idx = 3
  /\ ~calls[Len(calls)].ok
  /\ calls[Len(calls)].key = buses[2].name
  /\ buses[2].name # buses[1].name
  /\ calls[1].ok /\ IsMutation(calls[1]) /\ calls[1].key = buses[1].name
  /\ buses[1].departure # None
  /\ GetBus(data, buses[1].name).departure = buses[1].departure
  /\ \E i \in 1..Len(data) : data[i].name \notin seenBuses /\ data[i].bus.available

(***************************************************************************)
(* Properties of the creates                                               *)
(***************************************************************************)
\* C14 as stated: over all passes, no two create requests are issued for the
\* same bus name.
C14_OneCreateIssued ==
  \A j, k \in 1..Len(creates) : j # k => creates[j].key # creates[k].key

\* C14, amended: no create request is issued for a name after a create for
\* that name was accepted, so at most one create per name is accepted; only
\* a rejected create is issued again.
C14_NoCreateAfterAccepted ==
  \A j, k \in 1..Len(creates) :
    (j < k /\ creates[j].key = creates[k].key) => ~creates[j].ok

\* the second pass completed with the created name twice in its feed and
\* without a create; the first pass had created it
C14_Witness ==
  /\ pc = "done"
  /\ passes = 2
  /\ Len(creates) = 1
  /\ creates[1].ok
  /\ CallsWhere(LAMBDA c : c.op = "POST") = {}
  /\ Cardinality({i \in 1..Len(buses) :
                    buses[i].name = creates[1].key /\ buses[i].location # None}) = 2

(***************************************************************************)
(* Order of the remote calls of a pass                                     *)
(***************************************************************************)
OpRank(op) ==
  CASE op = "GET" -> 1
    [] op = "POST" -> 2
    [] op = "PATCH" -> 3
    [] op = "PUT_departure" -> 4
    [] op = "PUT_location" -> 5

IsSweepCall(c) == c.op = "PATCH" /\ c.available = Some(FALSE)

\* C15: the calls of a pass are issued one candidate after the other, each
\* candidate's calls in the order directory fetch, create, availability
\* PATCH, departure PUT, location PUT, each one completed before the next is
\* issued; the sweep PATCHes come only after the last candidate, and the pass
\* is done only when all of them have completed.
C15_CallsInOrder ==
  [][/\ (pc = "reconcile") =>
          /\ \A k \in 1..Len(calls) : calls[k].ok /\ ~IsSweepCall(calls[k])
          /\ SubSeq(calls', 1, Len(calls)) = calls
          /\ calls' # calls => idx' = idx + 1
          /\ \A k \in (Len(calls) + 1)..Len(calls') :
               calls'[k].key = buses[idx].name /\ ~IsSweepCall(calls'[k])
          /\ \A j, k \in (Len(calls) + 1)..Len(calls') :
               j < k => (OpRank(calls'[j].op) < OpRank(calls'[k].op) /\ calls'[j].ok)
     /\ (pc = "sweep") =>
          /\ idx = Len(buses) + 1
          /\ SubSeq(calls', 1, Len(calls)) = calls
          /\ \A k \in 1..Len(calls) : calls[k].ok /\ ~IsSweepCall(calls[k])
          /\ \A k \in (Len(calls) + 1)..Len(calls') : IsSweepCall(calls'[k])
     /\ (pc' = "done") => \A k \in 1..Len(calls') : calls'[k].ok]_vars

\* a completed pass: fetch, create and location PUT for the first candidate,
\* a call for the second one, and a sweep PATCH at the end
C15_Witness ==
  /\ pc = "done"
  /\ Len(calls) >= 5
  /\ calls[1].op = "GET" /\ calls[2].op = "POST" /\ calls[3].op = "PUT_location"
  /\ calls[3].key = buses[1].name
  /\ ~IsSweepCall(calls[4])
  /\ IsSweepCall(calls[Len(calls)])

(***************************************************************************)
(* Properties of the cache entries                                         *)
(***************************************************************************)
LocationDiffers(bus, cand) ==
  IF cand.location # None
    THEN bus.locations = <<>> \/ bus.locations[1] # cand.location[1]
    ELSE bus.locations # <<>>

\* what a candidate makes of the entry its name already has: a function of
\* the entry, the candidate and the day, not of the directory
ExpectedEntry(bus, cand, now) ==
  [id |-> bus.id,
   available |-> TRUE,
   departure |-> IF cand.departure # None THEN cand.departure ELSE bus.departure,
   locations |-> IF ~LocationDiffers(bus, cand) THEN bus.locations
                 ELSE IF cand.location # None THEN <<cand.location[1]>> ELSE <<>>,
   invalidateTime |-> IF LocationDiffers(bus, cand) THEN Some(now + 1)
                      ELSE bus.invalidateTime]

\* C16: an entry of the cache stays under its name with its remote id, and a
\* candidate whose name has an entry leaves in it, field by field, the old
\* value or the value the feed gives (all of the latter when no request is
\* rejected), whatever the directory snapshot holds.
C16_EntryKeepsId ==
  [][/\ Len(data') >= Len(data)
     /\ \A i \in 1..Len(data) :
          data'[i].name = data[i].name /\ data'[i].bus.id = data[i].bus.id
     /\ (pc = "reconcile" /\ idx' = idx + 1 /\ HasBus(data, buses[idx].name)) =>
          /\ \A f \in {"id", "available", "departure", "locations", "invalidateTime"} :
               GetBus(data', buses[idx].name)[f] \in
                 {GetBus(data, buses[idx].name)[f],
                  ExpectedEntry(GetBus(data, buses[idx].name), buses[idx], today)[f]}
          /\ pc' # "failed" =>
               GetBus(data', buses[idx].name) =
                 ExpectedEntry(GetBus(data, buses[idx].name), buses[idx], today)]_vars

\* the second of two passes with the same feed: the first candidate missed
\* the cache, so the directory was at hand when the second candidate, whose
\* entry the first pass had left with other locations than the directory
\* has, was processed
C16_Witness ==
  /\ pc = "done"
  /\ repeat
  /\ busCache # None
  /\ Len(buses) = 2
  /\ ~HasBus(data, buses[1].name)
  /\ HasBus(data, buses[2].name)
  /\ FindBus(busCache[1], buses[2].name) # None
  /\ FindBus(busCache[1], buses[2].name)[1].locations #
       GetBus(data, buses[2].name).locations

\* C17: every entry of the cache has at most one location.
C17_AtMostOneLocation ==
  \A i \in 1..Len(data) : Len(data[i].bus.locations) <= 1

\* C18: with the dirty flag clear and no save in progress, the file holds
\* what every flag-setting change made; stated for the changes that add an
\* entry: each entry of the cache is in the file, under its remote id.
C18_NoLostUpdate ==
  (~dataUpdated /\ saving = None) =>
    \A i \in 1..Len(data) :
      HasBus(file, data[i].name) /\ GetBus(file, data[i].name).id = data[i].bus.id

\* C19: no PATCH marking a bus unavailable goes to the remote id of the
\* entry of a name that is among the candidates of the pass.
C19_NoSweepOfResolved ==
  \A k \in 1..Len(calls) :
    IsSweepCall(calls[k]) =>
      \A i \in 1..Len(buses) :
        HasBus(data, buses[i].name) => GetBus(data, buses[i].name).id # calls[k].id

\* C20: after a rejected availability PATCH, departure PUT or location PUT
\* of a candidate, the entry does not hold the value that request carried.
C20_RejectedValueNotKept ==
  \A k \in 1..Len(calls) :
    (~calls[k].ok /\ ~IsSweepCall(calls[k]) /\ HasBus(data, calls[k].key)) =>
      /\ calls[k].op = "PATCH" =>
           GetBus(data, calls[k].key).available # calls[k].available[1]
      /\ calls[k].op = "PUT_departure" =>
           GetBus(data, calls[k].key).departure # calls[k].departure
      /\ calls[k].op = "PUT_location" =>
           GetBus(data, calls[k].key).locations # calls[k].locations

====
